---- MODULE Spec2Model ----
(***************************************************************************)
(* Multi-zone environmental monitor (src/src/main.cpp).                    *)
(*                                                                         *)
(* The firmware's loop() is modelled as a state machine whose program      *)
(* counter pc walks the numbered sections of loop().  Physical quantities  *)
(* (degrees Celsius, lux, percent relative humidity) are C floats in the   *)
(* source; here they are integers in HUNDREDTHS of the unit, so 30.0 is    *)
(* 3000 and the sentinel -999.0 is -99900.  Times are milliseconds, as     *)
(* returned by millis().  millis() wraps after 2^32 ms (49.7 days); the    *)
(* iterations explored here start a few seconds after boot, so the         *)
(* unsigned subtraction in the delay computation never wraps and the       *)
(* clock is a plain integer.                                               *)
(*                                                                         *)
(* The two LCDs (section 7 of loop()) only render values that are already  *)
(* in the state and write nothing back; they are not modelled.             *)
(***************************************************************************)
EXTENDS Integers, FiniteSets, Sequences, TLC

(***************************************************************************)
(* Bound of the model.                                                     *)
(***************************************************************************)
\* Number of loop() iterations explored.
MaxCycles == 3

(***************************************************************************)
(* Program constants.                                                      *)
(***************************************************************************)
ADC_MAX_VALUE == 4095
TEMP_HIGH_THRESHOLD == 3000
LIGHT_LOW_THRESHOLD == 10000
HUMIDITY_HIGH_THRESHOLD == 7000
\* -999.0: error code of readNtcTemperature.
NO_TEMP == -99900
\* -999.0: initial value of humidityZ2 / temperatureCZ2.
NO_DATA == -99900
\* -998.0: a failed DHT read while the field still held -999.0.
STALE_ERROR == -99800
\* -1.0 and 0.0: the two non-numeric results of readLdrLux.
TOO_DARK == -100
TOO_BRIGHT == 0
\* 30000 in the delay computation.
TARGET_PERIOD == 30000
\* delay(100) while the buzzer is high, and buzzerDelay = 100.
BUZZER_MS == 100
\* delayTime = 100 when the loop overran.
MIN_DELAY == 100

(***************************************************************************)
(* Inputs the environment can present.                                     *)
(***************************************************************************)
\* Raw ADC codes on the NTC pin: both rails and three in-range codes.
TempCodes == {0, 1823, 2048, 4095}
\* Raw ADC codes on the LDR pin: near both rails and three in-range codes.
LuxCodes == {12, 2000, 2048, 4000, 4095}
\* Pairs a successful DHT22 read can deliver (hundredths).
DhtPairs ==
    { [temperature |-> 2500, humidity |-> 4500],
      [temperature |-> 2810, humidity |-> 7530],
      [temperature |-> 3240, humidity |-> 4500] }
\* Status of the DHT driver after a read.
DhtStatuses == {"ERROR_NONE", "ERROR_TIMEOUT", "ERROR_CHECKSUM"}
\* Result of http.POST: HTTP status codes, or a negative HTTPClient error.
HttpCodes == {200, 404, -1}
\* Milliseconds the sensor reads of one cycle take.
ReadMsSet == {20}
\* Milliseconds sendDataToBackend blocks when it posts (connect, TLS handshake,
\* request, response).  The long ones make the iteration overrun.
PostMsSet == {380, 29780, 30980}
\* millis() when loop() is first entered.
BootMsSet == {4000}

VARIABLES
    pc,                 \* section of loop() about to run
    cycle,              \* completed iterations of loop()
    now,                \* millis()
    temperatureCZ2,     \* global: last stored Zone 2 temperature
    humidityZ2,         \* global: last stored Zone 2 humidity
    zone1_alert,        \* global alert flags
    zone2_alert,
    high_temp_alert,
    greenLed,           \* output pin levels
    yellowLed,
    redLed,
    buzzer,
    fanLed,
    loopStartTime,      \* locals of loop()
    temperatureCZ1,
    luxZ1,
    dhtStatus,
    newValues,
    tempAlerts,         \* z1_temp_alert, z1_lux_alert, z2_temp_alert, z2_humidity_alert
    buzzerDelay,
    jsonData,
    loopDuration,
    delayTime,
    wifiStatus,         \* what WiFi.status() returned in sendDataToBackend
    httpResponseCode,   \* what http.POST returned (0: no POST made)
    postCount,          \* POST requests issued in this iteration
    serialLog           \* diagnostics printed in this iteration

zoneB == <<temperatureCZ2, humidityZ2>>
alerts == <<zone1_alert, zone2_alert, high_temp_alert>>
pins == <<greenLed, yellowLed, redLed, buzzer, fanLed>>
readings == <<temperatureCZ1, luxZ1, dhtStatus, newValues>>
transport == <<wifiStatus, httpResponseCode, postCount>>
timing == <<loopStartTime, loopDuration, delayTime>>

vars ==
    <<pc, cycle, now, zoneB, alerts, pins, readings, tempAlerts, buzzerDelay,
      jsonData, timing, transport, serialLog>>

(***************************************************************************)
(* Sensor conversion.                                                      *)
(***************************************************************************)
\* The beta-model inversion of readNtcTemperature for the in-range codes of
\* TempCodes, in hundredths of a degree (24.99, 30.04).
NtcCelsius(analogValue) ==
    CASE analogValue = 1823 -> 3004
      [] analogValue = 2048 -> 2499

readNtcTemperature(analogValue) ==
    IF analogValue <= 0 \/ analogValue >= ADC_MAX_VALUE
    THEN NO_TEMP
    ELSE NtcCelsius(analogValue)

\* The inverse power law of readLdrLux for the in-range codes of LuxCodes, in
\* hundredths of a lux (106.49, 99.59, 0.48).
LdrLux(analogValue) ==
    CASE analogValue = 2000 -> 10649
      [] analogValue = 2048 -> 9959
      [] analogValue = 4000 -> 48

\* voltage = analogValue / 4095 * 3.3; voltage <= 0.01 and voltage >= 3.29 are
\* compared here after multiplying through by 100 * 4095.
readLdrLux(analogValue) ==
    IF analogValue * 330 <= ADC_MAX_VALUE
    THEN TOO_DARK
    ELSE IF analogValue * 330 >= 329 * ADC_MAX_VALUE
         THEN TOO_BRIGHT
         ELSE LdrLux(analogValue)

\* Faulty variant: a failed read marks the field stale whatever it held.
DhtFaultUpdate_AlwaysStale(stored) == STALE_ERROR

\* Faulty variant: a failed read puts the field back to "never read".
DhtFaultUpdate_Reset(stored) == NO_DATA

\* The else branch of the DHT read, for one stored field.
DhtFaultUpdate(stored) ==
    IF stored = NO_DATA THEN STALE_ERROR ELSE stored

\* newValues holds the pair dht.getTempAndHumidity() returned, as a sequence of
\* one record; after a failed read its fields are NaN and it is empty here.
NaNValues == << >>

(***************************************************************************)
(* Alert evaluation.                                                       *)
(***************************************************************************)
\* Faulty variant: the "too dark" code -1.0 is compared like a lux value.
EvaluateAlerts_DarkIsLow(tZ1, lux, tZ2, hZ2) ==
    LET z1_temp_alert == tZ1 # NO_TEMP /\ tZ1 > TEMP_HIGH_THRESHOLD
        z1_lux_alert == lux < LIGHT_LOW_THRESHOLD /\ lux # TOO_BRIGHT
        z2_temp_alert ==
            tZ2 # NO_DATA /\ tZ2 # STALE_ERROR /\ tZ2 > TEMP_HIGH_THRESHOLD
        z2_humidity_alert ==
            hZ2 # NO_DATA /\ hZ2 # STALE_ERROR /\ hZ2 > HUMIDITY_HIGH_THRESHOLD
    IN  [z1_temp_alert |-> z1_temp_alert,
         z1_lux_alert |-> z1_lux_alert,
         z2_temp_alert |-> z2_temp_alert,
         z2_humidity_alert |-> z2_humidity_alert,
         zone1_alert |-> (z1_temp_alert \/ z1_lux_alert),
         zone2_alert |-> (z2_temp_alert \/ z2_humidity_alert),
         high_temp_alert |-> (z1_temp_alert \/ z2_temp_alert)]

\* Faulty variant: the fan flag follows the zone flags, not the temperatures.
EvaluateAlerts_FanOnAnyAlert(tZ1, lux, tZ2, hZ2) ==
    LET z1_temp_alert == tZ1 # NO_TEMP /\ tZ1 > TEMP_HIGH_THRESHOLD
        z1_lux_alert ==
            lux # TOO_DARK /\ lux < LIGHT_LOW_THRESHOLD /\ lux # TOO_BRIGHT
        z2_temp_alert ==
            tZ2 # NO_DATA /\ tZ2 # STALE_ERROR /\ tZ2 > TEMP_HIGH_THRESHOLD
        z2_humidity_alert ==
            hZ2 # NO_DATA /\ hZ2 # STALE_ERROR /\ hZ2 > HUMIDITY_HIGH_THRESHOLD
    IN  [z1_temp_alert |-> z1_temp_alert,
         z1_lux_alert |-> z1_lux_alert,
         z2_temp_alert |-> z2_temp_alert,
         z2_humidity_alert |-> z2_humidity_alert,
         zone1_alert |-> (z1_temp_alert \/ z1_lux_alert),
         zone2_alert |-> (z2_temp_alert \/ z2_humidity_alert),
         high_temp_alert |-> (z1_temp_alert \/ z1_lux_alert
                              \/ z2_temp_alert \/ z2_humidity_alert)]

EvaluateAlerts(tZ1, lux, tZ2, hZ2) ==
    LET z1_temp_alert == tZ1 # NO_TEMP /\ tZ1 > TEMP_HIGH_THRESHOLD
        z1_lux_alert ==
            lux # TOO_DARK /\ lux < LIGHT_LOW_THRESHOLD /\ lux # TOO_BRIGHT
        z2_temp_alert ==
            tZ2 # NO_DATA /\ tZ2 # STALE_ERROR /\ tZ2 > TEMP_HIGH_THRESHOLD
        z2_humidity_alert ==
            hZ2 # NO_DATA /\ hZ2 # STALE_ERROR /\ hZ2 > HUMIDITY_HIGH_THRESHOLD
    IN  [z1_temp_alert |-> z1_temp_alert,
         z1_lux_alert |-> z1_lux_alert,
         z2_temp_alert |-> z2_temp_alert,
         z2_humidity_alert |-> z2_humidity_alert,
         zone1_alert |-> (z1_temp_alert \/ z1_lux_alert),
         zone2_alert |-> (z2_temp_alert \/ z2_humidity_alert),
         high_temp_alert |-> (z1_temp_alert \/ z2_temp_alert)]

NoTempAlerts ==
    [z1_temp_alert |-> FALSE, z1_lux_alert |-> FALSE,
     z2_temp_alert |-> FALSE, z2_humidity_alert |-> FALSE]

(***************************************************************************)
(* Actuator policy.                                                        *)
(***************************************************************************)
\* Faulty variant: green looks at Zone 1 only.
LedStates_GreenIgnoresZone2(z1, z2) ==
    [yellowState |-> z1, redState |-> z2, greenState |-> ~z1]

LedStates(z1, z2) ==
    [yellowState |-> z1, redState |-> z2, greenState |-> ~(z1 \/ z2)]

(***************************************************************************)
(* JSON generation.                                                        *)
(***************************************************************************)
JsonNull == [kind |-> "null", val |-> 0]
JsonNumber(v) == [kind |-> "number", val |-> v]
JsonString(s) == [kind |-> s, val |-> 0]
JsonBool(b) == IF b THEN "true" ELSE "false"

Abs(x) == IF x < 0 THEN -x ELSE x

\* String(x, 1): x rounded to one fractional digit; the result is in tenths.
StringOneDecimal(x) ==
    IF x < 0 THEN -((Abs(x) + 5) \div 10) ELSE (x + 5) \div 10

\* String((int)x): truncation toward zero; the result is in whole units.
StringInt(x) ==
    IF x < 0 THEN -(Abs(x) \div 100) ELSE x \div 100

\* Faulty variant: Zone 2 fields are null only for -999.0, so -998.0 is printed.
EncodeJson_StaleAsNumber(tZ1, lux, tZ2, hZ2, a1, a2, fan) ==
    [z1_tempC |->
        IF tZ1 = NO_TEMP THEN JsonNull ELSE JsonNumber(StringOneDecimal(tZ1)),
     z1_lux |->
        IF lux = TOO_DARK THEN JsonString("DARK")
        ELSE IF lux = TOO_BRIGHT THEN JsonString("BRIGHT")
        ELSE JsonNumber(StringInt(lux)),
     z1_alert |-> JsonBool(a1),
     z2_dhtTempC |->
        IF tZ2 = NO_DATA THEN JsonNull ELSE JsonNumber(StringOneDecimal(tZ2)),
     z2_humidity |->
        IF hZ2 = NO_DATA THEN JsonNull ELSE JsonNumber(StringOneDecimal(hZ2)),
     z2_alert |-> JsonBool(a2),
     fan_on |-> JsonBool(fan)]

EncodeJson(tZ1, lux, tZ2, hZ2, a1, a2, fan) ==
    [z1_tempC |->
        IF tZ1 = NO_TEMP THEN JsonNull ELSE JsonNumber(StringOneDecimal(tZ1)),
     z1_lux |->
        IF lux = TOO_DARK THEN JsonString("DARK")
        ELSE IF lux = TOO_BRIGHT THEN JsonString("BRIGHT")
        ELSE JsonNumber(StringInt(lux)),
     z1_alert |-> JsonBool(a1),
     z2_dhtTempC |->
        IF tZ2 <= STALE_ERROR THEN JsonNull ELSE JsonNumber(StringOneDecimal(tZ2)),
     z2_humidity |->
        IF hZ2 <= STALE_ERROR THEN JsonNull ELSE JsonNumber(StringOneDecimal(hZ2)),
     z2_alert |-> JsonBool(a2),
     fan_on |-> JsonBool(fan)]

NoJson == [z1_tempC |-> JsonNull, z1_lux |-> JsonNull, z1_alert |-> "false",
           z2_dhtTempC |-> JsonNull, z2_humidity |-> JsonNull,
           z2_alert |-> "false", fan_on |-> "false"]

(***************************************************************************)
(* Delay computation.                                                      *)
(***************************************************************************)
\* long loopDuration = loopEndTime - loopStartTime
LoopDuration(loopEndTime, start) == loopEndTime - start

\* Faulty variant: a computed delay of exactly 0 is clamped as well.
DelayTime_ClampZero(duration, buzz) ==
    LET d == TARGET_PERIOD - duration - buzz
    IN  IF d <= 0
        THEN [delayTime |-> MIN_DELAY, warned |-> TRUE]
        ELSE [delayTime |-> d, warned |-> FALSE]

\* delayTime and whether the overrun warning is printed.
DelayTime(duration, buzz) ==
    LET d == TARGET_PERIOD - duration - buzz
    IN  IF d < 0
        THEN [delayTime |-> MIN_DELAY, warned |-> TRUE]
        ELSE [delayTime |-> d, warned |-> FALSE]

(***************************************************************************)
(* State after setup().                                                    *)
(***************************************************************************)
Init ==
    /\ pc = "start"
    /\ cycle = 0
    /\ now \in BootMsSet
    /\ temperatureCZ2 = NO_DATA
    /\ humidityZ2 = NO_DATA
    /\ zone1_alert = FALSE
    /\ zone2_alert = FALSE
    /\ high_temp_alert = FALSE
    /\ greenLed = TRUE
    /\ yellowLed = FALSE
    /\ redLed = FALSE
    /\ buzzer = FALSE
    /\ fanLed = FALSE
    /\ loopStartTime = 0
    /\ temperatureCZ1 = 0
    /\ luxZ1 = 0
    /\ dhtStatus = "ERROR_NONE"
    /\ newValues = NaNValues
    /\ tempAlerts = NoTempAlerts
    /\ buzzerDelay = 0
    /\ jsonData = NoJson
    /\ loopDuration = 0
    /\ delayTime = 0
    /\ wifiStatus = "WL_IDLE_STATUS"
    /\ httpResponseCode = 0
    /\ postCount = 0
    /\ serialLog = {}

(***************************************************************************)
(* loop(), section by section.                                             *)
(***************************************************************************)
\* unsigned long loopStartTime = millis();
StartCycle ==
    /\ pc = "start"
    /\ cycle < MaxCycles
    /\ loopStartTime' = now
    /\ pc' = "acquire"
    /\ UNCHANGED <<cycle, now, zoneB, alerts, pins, readings, tempAlerts,
                   buzzerDelay, jsonData, loopDuration, delayTime, transport,
                   serialLog>>

\* 1. Read all sensors.
Acquire ==
    /\ pc = "acquire"
    /\ \E tc \in TempCodes, lc \in LuxCodes, st \in DhtStatuses,
          pair \in DhtPairs, ms \in ReadMsSet :
          /\ temperatureCZ1' = readNtcTemperature(tc)
          /\ luxZ1' = readLdrLux(lc)
          /\ dhtStatus' = st
          /\ now' = now + ms
          /\ IF st = "ERROR_NONE"
             THEN /\ newValues' = <<pair>>
                  /\ temperatureCZ2' = pair.temperature
                  /\ humidityZ2' = pair.humidity
                  /\ serialLog' = serialLog
             ELSE /\ newValues' = NaNValues
                  /\ temperatureCZ2' = DhtFaultUpdate(temperatureCZ2)
                  /\ humidityZ2' = DhtFaultUpdate(humidityZ2)
                  /\ serialLog' = serialLog \cup {"Error reading DHT22"}
    /\ pc' = "evaluate"
    /\ UNCHANGED <<cycle, alerts, pins, tempAlerts, buzzerDelay, jsonData,
                   timing, transport>>

\* 2. Reset alert flags; 3. evaluate alert conditions.
Evaluate ==
    /\ pc = "evaluate"
    /\ LET e == EvaluateAlerts(temperatureCZ1, luxZ1, temperatureCZ2, humidityZ2)
       IN  /\ tempAlerts' = [z1_temp_alert |-> e.z1_temp_alert,
                             z1_lux_alert |-> e.z1_lux_alert,
                             z2_temp_alert |-> e.z2_temp_alert,
                             z2_humidity_alert |-> e.z2_humidity_alert]
           /\ zone1_alert' = e.zone1_alert
           /\ zone2_alert' = e.zone2_alert
           /\ high_temp_alert' = e.high_temp_alert
    /\ pc' = "actuate"
    /\ UNCHANGED <<cycle, now, zoneB, pins, readings, buzzerDelay, jsonData,
                   timing, transport, serialLog>>

\* 4. LEDs; 5. buzzer.  With an alert active the buzzer line goes high here
\* and the thread blocks in delay(100).
Actuate ==
    /\ pc = "actuate"
    /\ LET led == LedStates(zone1_alert, zone2_alert)
       IN  /\ yellowLed' = led.yellowState
           /\ redLed' = led.redState
           /\ greenLed' = led.greenState
    /\ buzzerDelay' = 0
    /\ IF zone1_alert \/ zone2_alert
       THEN /\ buzzer' = TRUE
            /\ pc' = "buzzing"
       ELSE /\ buzzer' = FALSE
            /\ pc' = "fan"
    /\ UNCHANGED <<cycle, now, zoneB, alerts, fanLed, readings, tempAlerts,
                   jsonData, timing, transport, serialLog>>

\* delay(100) returns; buzzer low; buzzerDelay = 100.
BuzzerPulse ==
    /\ pc = "buzzing"
    /\ now' = now + BUZZER_MS
    /\ buzzer' = FALSE
    /\ buzzerDelay' = BUZZER_MS
    /\ pc' = "fan"
    /\ UNCHANGED <<cycle, zoneB, alerts, greenLed, yellowLed, redLed, fanLed,
                   readings, tempAlerts, jsonData, timing, transport, serialLog>>

\* 6. Fan LED.
FanControl ==
    /\ pc = "fan"
    /\ fanLed' = high_temp_alert
    /\ pc' = "encode"
    /\ UNCHANGED <<cycle, now, zoneB, alerts, greenLed, yellowLed, redLed, buzzer,
                   readings, tempAlerts, buzzerDelay, jsonData, timing, transport,
                   serialLog>>

\* 8. Generate the JSON string; 9. print it.
Encode ==
    /\ pc = "encode"
    /\ jsonData' = EncodeJson(temperatureCZ1, luxZ1, temperatureCZ2, humidityZ2,
                              zone1_alert, zone2_alert, high_temp_alert)
    /\ pc' = "transport"
    /\ UNCHANGED <<cycle, now, zoneB, alerts, pins, readings, tempAlerts,
                   buzzerDelay, timing, transport, serialLog>>

\* Diagnostics sendDataToBackend prints for a POST result.
PostLog(code) ==
    IF code > 0
    THEN {"HTTP Response code"}
         \cup (IF code # 200 /\ code # 201 THEN {"Note: not 200 or 201"} ELSE {})
    ELSE {"Error sending POST"}

\* Faulty variant: a POST that did not return 200 is sent a second time.
SendDataToBackend_Retry ==
    /\ pc = "transport"
    /\ \E st \in {"WL_CONNECTED", "WL_DISCONNECTED"} :
          /\ wifiStatus' = st
          /\ IF st = "WL_CONNECTED"
             THEN \E code \in HttpCodes, ms \in PostMsSet :
                     /\ httpResponseCode' = code
                     /\ postCount' = postCount + (IF code = 200 THEN 1 ELSE 2)
                     /\ now' = now + ms
                     /\ serialLog' = serialLog \cup {"Sending data to backend"}
                                               \cup PostLog(code)
             ELSE /\ httpResponseCode' = 0
                  /\ postCount' = postCount
                  /\ now' = now
                  /\ serialLog' = serialLog \cup {"WiFi not connected"}
    /\ pc' = "schedule"
    /\ UNCHANGED <<cycle, zoneB, alerts, pins, readings, tempAlerts,
                   buzzerDelay, jsonData, timing>>

\* Faulty variant: a transport error is fatal and loop() never gets further.
SendDataToBackend_FatalOnError ==
    /\ pc = "transport"
    /\ \E st \in {"WL_CONNECTED", "WL_DISCONNECTED"} :
          /\ wifiStatus' = st
          /\ IF st = "WL_CONNECTED"
             THEN \E code \in HttpCodes, ms \in PostMsSet :
                     /\ httpResponseCode' = code
                     /\ postCount' = postCount + 1
                     /\ now' = now + ms
                     /\ serialLog' = serialLog \cup {"Sending data to backend"}
                                               \cup PostLog(code)
                     /\ pc' = IF code > 0 THEN "schedule" ELSE "halted"
             ELSE /\ httpResponseCode' = 0
                  /\ postCount' = postCount
                  /\ now' = now
                  /\ serialLog' = serialLog \cup {"WiFi not connected"}
                  /\ pc' = "schedule"
    /\ UNCHANGED <<cycle, zoneB, alerts, pins, readings, tempAlerts,
                   buzzerDelay, jsonData, timing>>

\* 10. sendDataToBackend(jsonData).
SendDataToBackend ==
    /\ pc = "transport"
    /\ \E st \in {"WL_CONNECTED", "WL_DISCONNECTED"} :
          /\ wifiStatus' = st
          /\ IF st = "WL_CONNECTED"
             THEN \E code \in HttpCodes, ms \in PostMsSet :
                     /\ httpResponseCode' = code
                     /\ postCount' = postCount + 1
                     /\ now' = now + ms
                     /\ serialLog' = serialLog \cup {"Sending data to backend"}
                                               \cup PostLog(code)
             ELSE /\ httpResponseCode' = 0
                  /\ postCount' = postCount
                  /\ now' = now
                  /\ serialLog' = serialLog \cup {"WiFi not connected"}
    /\ pc' = "schedule"
    /\ UNCHANGED <<cycle, zoneB, alerts, pins, readings, tempAlerts,
                   buzzerDelay, jsonData, timing>>

\* 11. Calculate the delay.
ComputeDelay ==
    /\ pc = "schedule"
    /\ LET duration == LoopDuration(now, loopStartTime)
           d == DelayTime(duration, buzzerDelay)
       IN  /\ loopDuration' = duration
           /\ delayTime' = d.delayTime
           /\ serialLog' = IF d.warned
                           THEN serialLog \cup {"Warning: Loop duration exceeded"}
                           ELSE serialLog
    /\ pc' = "sleep"
    /\ UNCHANGED <<cycle, now, zoneB, alerts, pins, readings, tempAlerts,
                   buzzerDelay, jsonData, loopStartTime, transport>>

\* delay(delayTime)
Sleep ==
    /\ pc = "sleep"
    /\ now' = now + delayTime
    /\ pc' = "end"
    /\ UNCHANGED <<cycle, zoneB, alerts, pins, readings, tempAlerts,
                   buzzerDelay, jsonData, timing, transport, serialLog>>

\* loop() returns and the Arduino core calls it again: the locals are gone,
\* the globals and the pin levels stay.
LoopReturn ==
    /\ pc = "end"
    /\ cycle' = cycle + 1
    /\ pc' = "start"
    /\ loopStartTime' = 0
    /\ temperatureCZ1' = 0
    /\ luxZ1' = 0
    /\ dhtStatus' = "ERROR_NONE"
    /\ newValues' = NaNValues
    /\ tempAlerts' = NoTempAlerts
    /\ buzzerDelay' = 0
    /\ jsonData' = NoJson
    /\ loopDuration' = 0
    /\ delayTime' = 0
    /\ wifiStatus' = "WL_IDLE_STATUS"
    /\ httpResponseCode' = 0
    /\ postCount' = 0
    /\ serialLog' = {}
    /\ UNCHANGED <<now, zoneB, alerts, pins>>

Next ==
    \/ StartCycle
    \/ Acquire
    \/ Evaluate
    \/ Actuate
    \/ BuzzerPulse
    \/ FanControl
    \/ Encode
    \/ SendDataToBackend
    \/ ComputeDelay
    \/ Sleep
    \/ LoopReturn

Spec == Init /\ [][Next]_vars

\* Every call of loop() is synchronous and returns: a step that is possible
\* is eventually taken.
FairSpec == Spec /\ WF_vars(Next)

(***************************************************************************)
(* Properties.                                                             *)
(***************************************************************************)
Sentinels2 == {-99900, -99800}
Warned == "Warning: Loop duration exceeded" \in serialLog
DhtFaulted == dhtStatus # "ERROR_NONE"
AfterEvaluate == pc \in {"actuate", "buzzing", "fan", "encode", "transport",
                         "schedule", "sleep", "end"}
AfterActuate == pc \in {"encode", "transport", "schedule", "sleep", "end"}
AfterEncode == pc \in {"transport", "schedule", "sleep", "end"}
AfterSend == pc \in {"schedule", "sleep", "end"}

\* C1: Zone B degrade rule.  In the sensor-read step, for temperature and
\* humidity independently: when the DHT read faults, a stored -999.0 becomes
\* -998.0 and any other stored value stays exactly as it was; when the read
\* succeeds both stored fields become the newly read pair.  No other step
\* touches the two stored fields.
C1_DegradeStep ==
    IF pc = "acquire"
    THEN IF dhtStatus' # "ERROR_NONE"
         THEN /\ temperatureCZ2 = -99900 => temperatureCZ2' = -99800
              /\ temperatureCZ2 # -99900 => temperatureCZ2' = temperatureCZ2
              /\ humidityZ2 = -99900 => humidityZ2' = -99800
              /\ humidityZ2 # -99900 => humidityZ2' = humidityZ2
         ELSE /\ Len(newValues') = 1
              /\ temperatureCZ2' = newValues'[1].temperature
              /\ humidityZ2' = newValues'[1].humidity
    ELSE UNCHANGED zoneB
C1_ZoneBDegradeRule == [][C1_DegradeStep]_vars

\* A failed read in a later cycle found a valid humidity of 45.0 and left it.
C1_Witness ==
    /\ pc = "evaluate"
    /\ cycle >= 1
    /\ DhtFaulted
    /\ humidityZ2 = 4500
    /\ temperatureCZ2 = 3240

\* C2: in every cycle that does not overrun, the time from the recorded cycle
\* start to the end of the end-of-cycle sleep is the 30000 ms target period,
\* whether or not the buzzer pulsed.
C2_PeriodIsTarget ==
    (pc = "end" /\ ~Warned) => now - loopStartTime = 30000

\* C3: scheduler sleep rule.  With sleepTime = 30000 - elapsed - buzzerPulseMs,
\* a negative sleepTime sleeps the 100 ms floor and prints the overrun
\* warning; otherwise the cycle sleeps exactly sleepTime (0 included) and
\* prints no warning.  elapsed 500 with a pulse gives 29400; elapsed 31000
\* gives the floor and the warning.
C3_SleepRule ==
    /\ pc \in {"sleep", "end"} =>
          LET sleepTime == 30000 - loopDuration - buzzerDelay
          IN  /\ buzzerDelay \in {0, 100}
              /\ sleepTime < 0 => delayTime = 100 /\ Warned
              /\ sleepTime >= 0 => delayTime = sleepTime /\ ~Warned
              /\ (loopDuration = 500 /\ buzzerDelay = 100) => delayTime = 29400
              /\ loopDuration = 31000 => delayTime = 100 /\ Warned
    /\ pc = "sleep" => loopDuration = now - loopStartTime
    /\ pc = "end" => now - loopStartTime = loopDuration + delayTime

\* An overrun of exactly 31000 ms has been clamped and slept.
C3_Witness ==
    /\ pc = "end"
    /\ loopDuration = 31000
    /\ delayTime = 100
    /\ Warned

\* C4: sentinel readings never trigger an alert, the flags of a cycle are a
\* function of that cycle's readings only, and a cycle whose readings are all
\* sentinels ends with the three flags false.
C4_SentinelsNeverAlert ==
    AfterEvaluate =>
      /\ temperatureCZ1 = -99900 => ~tempAlerts.z1_temp_alert
      /\ luxZ1 \in {-100, 0} => ~tempAlerts.z1_lux_alert
      /\ temperatureCZ2 \in Sentinels2 => ~tempAlerts.z2_temp_alert
      /\ humidityZ2 \in Sentinels2 => ~tempAlerts.z2_humidity_alert
      /\ zone1_alert <=> \/ (temperatureCZ1 # -99900 /\ temperatureCZ1 > 3000)
                         \/ (luxZ1 \notin {-100, 0} /\ luxZ1 < 10000)
      /\ zone2_alert <=> \/ (temperatureCZ2 \notin Sentinels2 /\ temperatureCZ2 > 3000)
                         \/ (humidityZ2 \notin Sentinels2 /\ humidityZ2 > 7000)
      /\ high_temp_alert <=>
                         \/ (temperatureCZ1 # -99900 /\ temperatureCZ1 > 3000)
                         \/ (temperatureCZ2 \notin Sentinels2 /\ temperatureCZ2 > 3000)
      /\ ( /\ temperatureCZ1 = -99900
           /\ luxZ1 \in {-100, 0}
           /\ temperatureCZ2 \in Sentinels2
           /\ humidityZ2 \in Sentinels2 )
         => ~zone1_alert /\ ~zone2_alert /\ ~high_temp_alert

\* Every reading is a sentinel and the flags are down, although the yellow LED
\* still shows the Zone 1 alert of the cycle before.
C4_Witness ==
    /\ pc = "actuate"
    /\ yellowLed
    /\ temperatureCZ1 = -99900
    /\ luxZ1 = -100
    /\ temperatureCZ2 = -99800
    /\ humidityZ2 = -99800
    /\ ~zone1_alert /\ ~zone2_alert /\ ~high_temp_alert

\* C5: actuator policy.  Once the actuation step is over: yellow = zone1_alert,
\* red = zone2_alert, green = NOT (zone1_alert OR zone2_alert), fan LED =
\* high_temp_alert, the buzzer pulsed for 100 ms iff a zone alert is up
\* (buzzerDelay 100, else 0), green is on exactly when neither yellow nor red
\* is, and the buzzer line is low.
C5_AfterActuation ==
    AfterActuate =>
      /\ yellowLed = zone1_alert
      /\ redLed = zone2_alert
      /\ greenLed = ~(zone1_alert \/ zone2_alert)
      /\ fanLed = high_temp_alert
      /\ buzzerDelay = IF zone1_alert \/ zone2_alert THEN 100 ELSE 0
      /\ greenLed <=> (~yellowLed /\ ~redLed)
      /\ buzzer = FALSE
C5_PulseStep ==
    /\ pc' = "buzzing" => zone1_alert \/ zone2_alert
    /\ pc = "buzzing" => buzzer /\ ~buzzer' /\ now' = now + 100
    /\ (pc = "actuate" /\ pc' # "buzzing") => ~(zone1_alert \/ zone2_alert)
C5_ActuatorPolicy == []C5_AfterActuation /\ [][C5_PulseStep]_vars

\* Only Zone 2 is in alert: red on, yellow and green off, the buzzer pulsed.
C5_Witness ==
    /\ pc = "encode"
    /\ ~zone1_alert
    /\ zone2_alert
    /\ redLed /\ ~yellowLed /\ ~greenLed
    /\ buzzerDelay = 100

\* C6: high_temp_alert is true iff the Zone 1 or the Zone 2 temperature alert
\* is; light and humidity alerts alone leave it false; it implies a zone
\* alert; the fan LED and the fan_on field carry it, so at the end of the
\* actuation step the fan LED is never on together with green.
C6_HighTempFromTemperatureOnly ==
    /\ AfterEvaluate =>
         /\ high_temp_alert <=>
               (tempAlerts.z1_temp_alert \/ tempAlerts.z2_temp_alert)
         /\ tempAlerts.z1_temp_alert <=> temperatureCZ1 > 3000
         /\ tempAlerts.z2_temp_alert <=> temperatureCZ2 > 3000
         /\ (~tempAlerts.z1_temp_alert /\ ~tempAlerts.z2_temp_alert)
               => ~high_temp_alert
         /\ high_temp_alert => (zone1_alert \/ zone2_alert)
    /\ AfterActuate => (fanLed = high_temp_alert /\ ~(fanLed /\ greenLed))
    /\ AfterEncode => jsonData.fan_on = (IF high_temp_alert THEN "true" ELSE "false")

\* Light and humidity alerts are both up and the fan stays off.
C6_Witness ==
    /\ pc = "encode"
    /\ tempAlerts.z1_lux_alert
    /\ tempAlerts.z2_humidity_alert
    /\ zone1_alert /\ zone2_alert
    /\ ~high_temp_alert
    /\ ~fanLed

\* C7: one delivery attempt per cycle at most and no retry.  With the link
\* down no request is issued, with the link up exactly one POST is; whatever
\* the outcome the cycle goes on to the delay computation, and the transport
\* step changes no reading, alert flag or actuator state.
C7_Attempts ==
    /\ postCount <= 1
    /\ ~AfterSend => postCount = 0
    /\ AfterSend =>
         /\ wifiStatus # "WL_CONNECTED" => (postCount = 0 /\ httpResponseCode = 0)
         /\ wifiStatus = "WL_CONNECTED" => postCount = 1
C7_TransportStep ==
    pc = "transport" =>
       /\ pc' = "schedule"
       /\ UNCHANGED <<zoneB, alerts, pins, readings, tempAlerts, buzzerDelay,
                      jsonData>>
C7_OneAttemptNoRetry == []C7_Attempts /\ [][C7_TransportStep]_vars

\* A POST failed at transport level and the cycle is at its delay computation.
C7_Witness ==
    /\ pc = "schedule"
    /\ wifiStatus = "WL_CONNECTED"
    /\ httpResponseCode < 0
    /\ postCount = 1

\* C8: no sentinel is surfaced as a number.  zone1.tempC is null iff the
\* Zone 1 temperature is -999.0; zone1.lux is "DARK" iff -1.0, "BRIGHT" iff
\* 0.0, a number otherwise; each Zone 2 field is null iff its stored value is
\* -999.0 or -998.0, a number otherwise; the alert fields and fan_on are the
\* flags of the same cycle.
C8_TelemetryRecord ==
    AfterEncode =>
      /\ jsonData.z1_tempC.kind \in {"null", "number"}
      /\ jsonData.z1_tempC.kind = "null" <=> temperatureCZ1 = -99900
      /\ jsonData.z1_lux.kind \in {"DARK", "BRIGHT", "number"}
      /\ jsonData.z1_lux.kind = "DARK" <=> luxZ1 = -100
      /\ jsonData.z1_lux.kind = "BRIGHT" <=> luxZ1 = 0
      /\ jsonData.z2_dhtTempC.kind \in {"null", "number"}
      /\ jsonData.z2_dhtTempC.kind = "null" <=> temperatureCZ2 \in Sentinels2
      /\ jsonData.z2_humidity.kind \in {"null", "number"}
      /\ jsonData.z2_humidity.kind = "null" <=> humidityZ2 \in Sentinels2
      /\ \A f \in {jsonData.z1_tempC, jsonData.z2_dhtTempC, jsonData.z2_humidity} :
            f.kind = "number" => f.val \notin {-9990, -9980}
      /\ jsonData.z1_lux.kind = "number" => jsonData.z1_lux.val >= 0
      /\ jsonData.z1_alert = (IF zone1_alert THEN "true" ELSE "false")
      /\ jsonData.z2_alert = (IF zone2_alert THEN "true" ELSE "false")
      /\ jsonData.fan_on = (IF high_temp_alert THEN "true" ELSE "false")

\* Zone 2 is stale, Zone 1 is saturated bright with no temperature.
C8_Witness ==
    /\ pc = "transport"
    /\ temperatureCZ2 = -99800
    /\ humidityZ2 = -99800
    /\ jsonData.z2_dhtTempC.kind = "null"
    /\ jsonData.z2_humidity.kind = "null"
    /\ luxZ1 = 0
    /\ jsonData.z1_lux.kind = "BRIGHT"
    /\ jsonData.z1_tempC.kind = "null"

\* C9: no fatal or terminal state.  The steps of a cycle follow one another in
\* the order acquire, evaluate, actuate, encode, transport, sleep; loop() is
\* entered again only after the sleep has returned; and, every blocking call
\* returning, every cycle that starts runs to its end and (within the cycles
\* explored) the next one starts.
C9_Order ==
    <<pc, pc'>> \in
       { <<"start", "acquire">>, <<"acquire", "evaluate">>,
         <<"evaluate", "actuate">>, <<"actuate", "buzzing">>,
         <<"actuate", "fan">>, <<"buzzing", "fan">>, <<"fan", "encode">>,
         <<"encode", "transport">>, <<"transport", "schedule">>,
         <<"schedule", "sleep">>, <<"sleep", "end">>, <<"end", "start">> }
C9_Step ==
    /\ C9_Order
    /\ cycle' = IF pc = "end" THEN cycle + 1 ELSE cycle
C9_NoTerminalState ==
    /\ [][C9_Step]_vars
    /\ (pc \notin {"start", "end"}) ~> (pc = "end")
    /\ (pc = "end") ~> (pc = "start")
    /\ (pc = "start" /\ cycle < MaxCycles) ~> (pc = "acquire")

\* A second cycle has started after one with a failed DHT read and an overrun.
C9_Witness ==
    /\ pc = "acquire"
    /\ cycle = 1
    /\ temperatureCZ2 = -99800
    /\ \E b \in BootMsSet : loopStartTime >= b + 31000

\* C10: the two stored Zone 2 fields are always in the same class (both
\* -999.0, both -998.0 or both valid); -999.0 is held only before the first
\* cycle's read and never reaches alert evaluation or encoding; the class only
\* moves forward and a valid field never becomes a sentinel again; a held-over
\* value above its threshold keeps zone2_alert up through failed reads.
ZoneBClass(v) == IF v = -99900 THEN 0 ELSE IF v = -99800 THEN 1 ELSE 2
C10_State ==
    /\ ZoneBClass(temperatureCZ2) = ZoneBClass(humidityZ2)
    /\ ZoneBClass(temperatureCZ2) = 0 => (cycle = 0 /\ pc \in {"start", "acquire"})
    /\ ( /\ AfterEvaluate
         /\ DhtFaulted
         /\ ZoneBClass(temperatureCZ2) = 2
         /\ (temperatureCZ2 > 3000 \/ humidityZ2 > 7000) )
       => zone2_alert
C10_Forward ==
    /\ ZoneBClass(temperatureCZ2') >= ZoneBClass(temperatureCZ2)
    /\ ZoneBClass(humidityZ2') >= ZoneBClass(humidityZ2)
C10_ZoneBClasses == []C10_State /\ [][C10_Forward]_vars

\* Third cycle: the read failed, 32.4 is still stored and the alert is up.
C10_Witness ==
    /\ pc = "actuate"
    /\ cycle = 2
    /\ DhtFaulted
    /\ temperatureCZ2 = 3240
    /\ zone2_alert

====
